---- MODULE Spec2Model ----
(***************************************************************************)
(* Connection latency monitor (lib/utils/diagnostics/latency/monitor.go). *)
(*                                                                         *)
(* Processes: the scheduling loop of Monitor.Run, one pingLoop goroutine   *)
(* per leg, the interval source (ticker), the two Pingers, the Reporter,   *)
(* the Clock and the owner of the context.                                 *)
(***************************************************************************)
EXTENDS Integers, Sequences, FiniteSets, TLC

\* ---------------------------------------------------------------- bounds
\* Largest reading of the Clock, in clock units.
MaxTime == 2
\* Number of firings of the interval source that are explored.
MaxTicks == 3

\* Largest PingInterval and ReportInterval a caller configures, in seconds.
MaxInterval == 2

\* Largest latency of a leg, in milliseconds, that latencyColors is applied to,
\* and how far below zero its arguments go.
MaxLatency == 420
MaxNegative == 2

\* Most SubIntervals a MultiInterval is constructed with.
MaxSubIntervals == 3

\* ------------------------------------------------------- program constants
\* Capacity of clientC and serverC: make(chan time.Time, 1).
ChanCap == 1
\* Clock units per millisecond: Duration.Milliseconds() truncates to whole ms.
UnitsPerMs == 2

\* c.PingInterval = 8 * time.Second and c.ReportInterval = 10 * time.Second.
DefaultPingInterval == 8
DefaultReportInterval == 10

\* export const warnThreshold = 150; export const errorThreshold = 400;
warnThreshold == 150
errorThreshold == 400

\* Capacity of WebSocketPinger.pongC.
PongCap == 1
\* Most pong frames the WebSocket receives in a behaviour.
MaxPongs == 3

pingKey == "ping-ticker"
reportingKeyAsPingKey == "ping-ticker"
reportingKey == "reporting-ticker"

Legs == {"client", "server"}
Keys == {pingKey, reportingKey}
Time == 0..MaxTime
NoTick == [Key |-> "none", Time |-> 0]
Results == {"ok", "err"}
\* How a Pinger.Ping call ends: nil, an error of the probe, or the error of its
\* canceled context.
PingResults == Results \cup {"canceled"}
NoPing == [leg |-> "none", res |-> "none"]
NoStats == [Client |-> 0, Server |-> 0]
\* The goroutines that call Ping on one WebSocketPinger.
Callers == {"a", "b"}
\* uuid.NewString() in the Ping call of caller c: a payload no other call draws.
NewString(c) == IF c = "a" THEN "uuid-a" ELSE "uuid-b"
\* The payloads a pong frame can carry: a caller's token or anything else.
Payloads == {NewString(c) : c \in Callers} \cup {"stray"}

VARIABLES
    ctxDone,        \* the context passed to Run is canceled
    now,            \* m.clock.Now()
    tickerC,        \* the tick the interval source offers on Next(), or NoTick
    tickerStopped,  \* m.ticker.Stop() has run
    fired,          \* number of firings of the interval source so far
    runPc,          \* position of Monitor.Run
    tick,           \* Run's local variable tick
    pingC,          \* clientC and serverC, by leg
    loopPc,         \* position of each pingLoop goroutine
    then,           \* pingLoop's local variable then, by leg
    latency,        \* m.clientLatency and m.serverLatency, by leg
    inflight,       \* number of Pinger.Ping calls in progress, by leg
    lastPing,       \* history: the leg and the result of the last finished Ping
    lastLog,        \* what pingLoop logged after the last finished Ping
    reportInFlight, \* number of Reporter.Report calls in progress
    reportArg,      \* the Statistics GetStats builds for the Report call in progress
    lastReport,     \* history: how the last finished Report call ended
    ctor,           \* a call of NewMonitor: its position, its config and its results
    wsCall,         \* the WebSocketPinger.Ping calls, by caller
    pongC,          \* WebSocketPinger.pongC
    wsHandler,      \* the pong handler of the WebSocket and what it did last
    sshCall,        \* a call of SSHPinger.Ping and the requests it sent
    colorArgs,      \* the arguments client and server of a latencyColors call
    colorRet,       \* what that call returned, or NoColors
    multi           \* a call of interval.NewMulti: its SubInterval keys and its result

vars == <<ctxDone, now, tickerC, tickerStopped, fired, runPc, tick, pingC, loopPc,
          then, latency, inflight, lastPing, lastLog, reportInFlight, reportArg, lastReport,
          ctor, wsCall, pongC, wsHandler, sshCall,
          colorArgs, colorRet, multi>>

envVars == <<ctxDone, now>>
tickerVars == <<tickerC, tickerStopped, fired>>
runVars == <<runPc, tick>>
loopVars == <<loopPc, then, latency, inflight, lastPing, lastLog>>
chanVars == <<pingC>>
reportVars == <<reportInFlight, reportArg, lastReport>>
ctorVars == <<ctor>>
wsVars == <<wsCall, pongC, wsHandler>>
\* What the running Monitor does not touch.
sshVars == <<sshCall>>
colorVars == <<colorArgs, colorRet>>
multiVars == <<multi>>
offMonitor == <<ctorVars, wsVars, sshVars, colorVars, multiVars>>
\* What a WebSocketPinger does not touch.
offWebSocket ==
    <<now, tickerVars, runVars, loopVars, chanVars, reportVars, ctorVars, sshVars,
      colorVars, multiVars>>
\* What an SSHPinger does not touch.
offSSH ==
    <<envVars, tickerVars, runVars, loopVars, chanVars, reportVars, ctorVars, wsVars,
      colorVars, multiVars>>
\* What latencyColors does not touch.
offColors ==
    <<envVars, tickerVars, runVars, loopVars, chanVars, reportVars, ctorVars, wsVars,
      sshVars, multiVars>>
\* What interval.NewMulti does not touch.
offMulti ==
    <<envVars, tickerVars, runVars, loopVars, chanVars, reportVars, ctorVars, wsVars,
      sshVars, colorVars>>

\* ------------------------------------------------------------- helpers

\* time.Duration.Milliseconds(): the duration as a whole number of milliseconds.
\* Integer division of the underlying count, truncated toward zero.
MillisecondsAsUnits(d) == d
Milliseconds(d) == IF d >= 0 THEN d \div UnitsPerMs ELSE -((-d) \div UnitsPerMs)

\* atomic.Int64.Load on the stored latency of leg l.
LoadCross(l) == latency["client"]
Load(l) == latency[l]

\* Monitor.GetStats: a copy of the two stored latencies.
GetStats == [Client |-> latency["client"], Server |-> latency["server"]]

\* A send on a buffered channel is ready when the buffer has room.
ChanCanSendCap2(c) == Len(c) < ChanCap + 1
ChanCanSend(c) == Len(c) < ChanCap

\* ------------------------------------------------- MonitorConfig, NewMonitor

\* The configurations a caller hands to NewMonitor.  A dependency is present (TRUE)
\* or nil (FALSE); the Clock is given or nil; the intervals are in seconds.
Configs ==
    [ClientPinger : BOOLEAN, ServerPinger : BOOLEAN, Reporter : BOOLEAN,
     Clock : {"nil", "given"},
     PingInterval : -1..MaxInterval, ReportInterval : -1..MaxInterval]

\* MonitorConfig.CheckAndSetDefaults on config c: the error returned and c afterwards.
CheckAndSetDefaultsNoReporterCheck(c) ==
    IF ~c.ClientPinger
    THEN [err |-> "client pinger not provided to MonitorConfig", cfg |-> c]
    ELSE IF ~c.ServerPinger
    THEN [err |-> "server pinger not provided to MonitorConfig", cfg |-> c]
    ELSE [err |-> "nil",
          cfg |-> [c EXCEPT
                     !.PingInterval = IF @ <= 0 THEN DefaultPingInterval ELSE @,
                     !.ReportInterval = IF @ <= 0 THEN DefaultReportInterval ELSE @,
                     !.Clock = IF @ = "nil" THEN "real" ELSE @]]
CheckAndSetDefaultsSwappedDefaults(c) ==
    IF ~c.ClientPinger
    THEN [err |-> "client pinger not provided to MonitorConfig", cfg |-> c]
    ELSE IF ~c.ServerPinger
    THEN [err |-> "server pinger not provided to MonitorConfig", cfg |-> c]
    ELSE IF ~c.Reporter
    THEN [err |-> "reporter not provided to MonitorConfig", cfg |-> c]
    ELSE [err |-> "nil",
          cfg |-> [c EXCEPT
                     !.PingInterval = IF @ <= 0 THEN DefaultReportInterval ELSE @,
                     !.ReportInterval = IF @ <= 0 THEN DefaultPingInterval ELSE @,
                     !.Clock = IF @ = "nil" THEN "real" ELSE @]]
CheckAndSetDefaults(c) ==
    IF ~c.ClientPinger
    THEN [err |-> "client pinger not provided to MonitorConfig", cfg |-> c]
    ELSE IF ~c.ServerPinger
    THEN [err |-> "server pinger not provided to MonitorConfig", cfg |-> c]
    ELSE IF ~c.Reporter
    THEN [err |-> "reporter not provided to MonitorConfig", cfg |-> c]
    ELSE [err |-> "nil",
          cfg |-> [c EXCEPT
                     !.PingInterval = IF @ <= 0 THEN DefaultPingInterval ELSE @,
                     !.ReportInterval = IF @ <= 0 THEN DefaultReportInterval ELSE @,
                     !.Clock = IF @ = "nil" THEN "real" ELSE @]]

\* The nil *Monitor that NewMonitor returns with an error.
NoMonitor == [clock |-> "nil", pingDuration |-> 0, reportDuration |-> 0]

\* The Monitor that NewMonitor builds from the checked config c: its clock and the
\* Duration of the two SubIntervals of its ticker.
BuildMonitor(c) ==
    [clock |-> c.Clock, pingDuration |-> c.PingInterval,
     reportDuration |-> c.ReportInterval]

\* NewMonitor is entered with config c, its parameter cfg a copy of c.
CtorEntered(c) ==
    [pc |-> "call", in |-> c, cfg |-> c, err |-> "nil", monitor |-> NoMonitor]

\* NewMonitor calls cfg.CheckAndSetDefaults().
NewMonitorCheck ==
    /\ ctor.pc = "call"
    /\ ctor' = [ctor EXCEPT !.pc = "checked",
                            !.err = CheckAndSetDefaults(ctor.cfg).err,
                            !.cfg = CheckAndSetDefaults(ctor.cfg).cfg]
    /\ UNCHANGED <<envVars, tickerVars, runVars, loopVars, chanVars, reportVars, wsVars,
                   sshVars, colorVars, multiVars>>

\* NewMonitor returns (nil, err) on an error of the check, else the Monitor and nil.
NewMonitorReturn ==
    /\ ctor.pc = "checked"
    /\ ctor' = [ctor EXCEPT !.pc = "done",
                            !.monitor = IF ctor.err # "nil" THEN NoMonitor
                                        ELSE BuildMonitor(ctor.cfg)]
    /\ UNCHANGED <<envVars, tickerVars, runVars, loopVars, chanVars, reportVars, wsVars,
                   sshVars, colorVars, multiVars>>

\* The NewMonitor call that built the Monitor whose Run is modelled below: the
\* configuration of TestMonitor.
TestConfig ==
    [ClientPinger |-> TRUE, ServerPinger |-> TRUE, Reporter |-> TRUE,
     Clock |-> "given", PingInterval |-> 3, ReportInterval |-> 5]
Constructed ==
    [pc |-> "done", in |-> TestConfig, cfg |-> TestConfig, err |-> "nil",
     monitor |-> BuildMonitor(TestConfig)]

\* ------------------------------------------------------- interval.NewMulti

\* The keys a caller of interval.NewMulti gives its SubIntervals.
KeyPool == Keys \cup {"a", "b"}

\* The keys of the SubIntervals NewMonitor passes to interval.NewMulti, in order.
MonitorKeys == <<pingKey, reportingKey>>

\* The key lists of the SubIntervals a MultiInterval is constructed with.
KeyLists == UNION {[1..n -> KeyPool] : n \in 1..MaxSubIntervals}

\* Two SubIntervals of the list share a Key.
HasDuplicateKey(ks) == \E i, j \in 1..Len(ks) : i # j /\ ks[i] = ks[j]

\* interval.NewMulti is entered with SubIntervals of keys ks.
NewMultiEntered(ks) == [pc |-> "call", keys |-> ks, err |-> "nil"]

\* interval.NewMulti: a duplicate key is a configuration error, reported at once.
NewMulti ==
    /\ multi.pc = "call"
    /\ multi' = [multi EXCEPT !.pc = "done",
                              !.err = IF HasDuplicateKey(multi.keys)
                                      THEN "duplicate key" ELSE "nil"]
    /\ UNCHANGED offMulti

\* The interval.NewMulti call of the NewMonitor that built the running Monitor.
MultiConstructed == [pc |-> "done", keys |-> MonitorKeys, err |-> "nil"]

\* ------------------------------------------------------------ latencyColors

\* The values of enum latencyColor, by their names.
latencyColor == {"ok", "warn", "error"}

\* The latencies latencyColors is applied to.
Latencies == (0 - MaxNegative)..MaxLatency

\* No result yet.
NoColors == [client |-> "none", server |-> "none", total |-> "none"]

\* latencyColors is not called.
NoColorsCall ==
    /\ colorArgs = [client |-> 0, server |-> 0]
    /\ colorRet = NoColors

\* function colorForLatency(l), nested in latencyColors.
colorForLatencyExclusive(l) ==
    IF l > errorThreshold THEN "error"
    ELSE IF l > warnThreshold THEN "warn"
    ELSE "ok"
colorForLatency(l) ==
    IF l >= errorThreshold THEN "error"
    ELSE IF l >= warnThreshold THEN "warn"
    ELSE "ok"

\* function latencyColors(client, server).
latencyColorsBySum(client, server) ==
    LET clientColor == colorForLatency(client)
        serverColor == colorForLatency(server)
    IN  IF client + server >= warnThreshold /\ client + server < errorThreshold
        THEN [client |-> clientColor, server |-> serverColor, total |-> "warn"]
        ELSE IF client >= errorThreshold \/ server >= errorThreshold
        THEN [client |-> clientColor, server |-> serverColor, total |-> "error"]
        ELSE IF client >= warnThreshold /\ server >= warnThreshold
        THEN [client |-> clientColor, server |-> serverColor, total |-> "warn"]
        ELSE IF /\ (client >= warnThreshold \/ server >= warnThreshold)
                /\ (client < warnThreshold \/ server < warnThreshold)
        THEN [client |-> clientColor, server |-> serverColor, total |-> "warn"]
        ELSE [client |-> clientColor, server |-> serverColor, total |-> "ok"]
latencyColorsErrorNeedsBoth(client, server) ==
    LET clientColor == colorForLatency(client)
        serverColor == colorForLatency(server)
    IN  IF client >= errorThreshold /\ server >= errorThreshold
        THEN [client |-> clientColor, server |-> serverColor, total |-> "error"]
        ELSE IF client >= warnThreshold /\ server >= warnThreshold
        THEN [client |-> clientColor, server |-> serverColor, total |-> "warn"]
        ELSE IF /\ (client >= warnThreshold \/ server >= warnThreshold)
                /\ (client < warnThreshold \/ server < warnThreshold)
        THEN [client |-> clientColor, server |-> serverColor, total |-> "warn"]
        ELSE [client |-> clientColor, server |-> serverColor, total |-> "ok"]
latencyColorsNoMixedCase(client, server) ==
    LET clientColor == colorForLatency(client)
        serverColor == colorForLatency(server)
    IN  IF client >= errorThreshold \/ server >= errorThreshold
        THEN [client |-> clientColor, server |-> serverColor, total |-> "error"]
        ELSE IF client >= warnThreshold /\ server >= warnThreshold
        THEN [client |-> clientColor, server |-> serverColor, total |-> "warn"]
        ELSE IF /\ (client >= warnThreshold \/ server >= warnThreshold)
                /\ (client < warnThreshold /\ server < warnThreshold)
        THEN [client |-> clientColor, server |-> serverColor, total |-> "warn"]
        ELSE [client |-> clientColor, server |-> serverColor, total |-> "ok"]
latencyColorsWarnEscalates(client, server) ==
    LET clientColor == colorForLatency(client)
        serverColor == colorForLatency(server)
    IN  IF client >= errorThreshold \/ server >= errorThreshold
        THEN [client |-> clientColor, server |-> serverColor, total |-> "error"]
        ELSE IF client >= warnThreshold /\ server >= warnThreshold
        THEN [client |-> clientColor, server |-> serverColor, total |-> "error"]
        ELSE IF /\ (client >= warnThreshold \/ server >= warnThreshold)
                /\ (client < warnThreshold \/ server < warnThreshold)
        THEN [client |-> clientColor, server |-> serverColor, total |-> "warn"]
        ELSE [client |-> clientColor, server |-> serverColor, total |-> "ok"]
latencyColors(client, server) ==
    LET clientColor == colorForLatency(client)
        serverColor == colorForLatency(server)
    IN  IF client >= errorThreshold \/ server >= errorThreshold
        THEN [client |-> clientColor, server |-> serverColor, total |-> "error"]
        ELSE IF client >= warnThreshold /\ server >= warnThreshold
        THEN [client |-> clientColor, server |-> serverColor, total |-> "warn"]
        ELSE IF /\ (client >= warnThreshold \/ server >= warnThreshold)
                /\ (client < warnThreshold \/ server < warnThreshold)
        THEN [client |-> clientColor, server |-> serverColor, total |-> "warn"]
        ELSE [client |-> clientColor, server |-> serverColor, total |-> "ok"]

\* latencyColors(latency.client, latency.server) is evaluated.
LatencyColorsCall ==
    /\ colorRet = NoColors
    /\ colorRet' = latencyColors(colorArgs.client, colorArgs.server)
    /\ UNCHANGED <<offColors, colorArgs>>

\* ---------------------------------------------------------------- SSHPinger

\* teleport.KeepAliveReqType, the request name SSHPinger.Ping sends.
KeepAliveReqType == "keepalive@openssh.com"

\* No call of SSHPinger.Ping has been made.
NoSSHCall ==
    [pc |-> "idle", requests |-> 0, name |-> "none", wantReply |-> FALSE,
     sendErr |-> "none", ret |-> "none"]

\* SSHPinger.Ping calls s.clt.SendRequest(ctx, teleport.KeepAliveReqType, true, nil).
SSHPingSend ==
    /\ sshCall.pc = "idle"
    /\ sshCall' = [sshCall EXCEPT !.pc = "sending", !.requests = @ + 1,
                                  !.name = KeepAliveReqType, !.wantReply = TRUE]
    /\ UNCHANGED offSSH

\* SendRequest returns res as its error and Ping returns trace.Wrap of it.
SSHPingReturnRetriesOnError(res) ==
    /\ sshCall.pc = "sending"
    /\ sshCall' = [sshCall EXCEPT !.pc = IF res = "err" /\ sshCall.requests < 2
                                        THEN "idle" ELSE "done",
                                  !.sendErr = res, !.ret = res]
    /\ UNCHANGED offSSH
SSHPingReturn(res) ==
    /\ sshCall.pc = "sending"
    /\ sshCall' = [sshCall EXCEPT !.pc = "done", !.sendErr = res, !.ret = res]
    /\ UNCHANGED offSSH

\* ---------------------------------------------------------- WebSocketPinger

\* A caller that has not called Ping.
NoCall == [pc |-> "idle", payload |-> "none", got |-> "none", writes |-> 0]

\* NewWebsocketPinger on a WebSocket whose pong handler was prev ("nil" or "set"):
\* the handler it installs has handled nothing yet (seen: the payloads it was
\* called with so far).
NewWebsocketPinger(prev) ==
    [prev |-> prev, handled |-> 0, last |-> "none", seen |-> {}, chained |-> "none",
     prevRet |-> "none", ret |-> "none"]

\* No WebSocketPinger is in use.
WebSocketIdle ==
    /\ wsCall = [c \in Callers |-> NoCall]
    /\ pongC = <<>>
    /\ wsHandler = NewWebsocketPinger("nil")

\* Ping of caller c draws its payload and calls ws.WriteControl, which returns res;
\* on an error Ping returns it, else it enters the for/select.
PingWriteWaitsAfterError(c, res) ==
    /\ wsCall[c].pc = "idle"
    /\ wsCall' = [wsCall EXCEPT ![c] =
                    [pc |-> "wait",
                     payload |-> NewString(c), got |-> "none", writes |-> 1]]
    /\ UNCHANGED <<offWebSocket, ctxDone, pongC, wsHandler>>
PingWrite(c, res) ==
    /\ wsCall[c].pc = "idle"
    /\ wsCall' = [wsCall EXCEPT ![c] =
                    [pc |-> IF res = "ok" THEN "wait" ELSE "errWrite",
                     payload |-> NewString(c), got |-> "none", writes |-> 1]]
    /\ UNCHANGED <<offWebSocket, ctxDone, pongC, wsHandler>>

\* The select of Ping takes case pong := <-s.pongC; Ping returns nil if pong is its
\* payload, else it goes round the for.
PingRecvPongAny(c) ==
    /\ wsCall[c].pc = "wait"
    /\ pongC # <<>>
    /\ wsCall' = [wsCall EXCEPT ![c].got = Head(pongC), ![c].pc = "ok"]
    /\ pongC' = Tail(pongC)
    /\ UNCHANGED <<offWebSocket, ctxDone, wsHandler>>
PingRecvPong(c) ==
    /\ wsCall[c].pc = "wait"
    /\ pongC # <<>>
    /\ wsCall' = [wsCall EXCEPT
                    ![c].got = Head(pongC),
                    ![c].pc = IF Head(pongC) = wsCall[c].payload THEN "ok" ELSE "wait"]
    /\ pongC' = Tail(pongC)
    /\ UNCHANGED <<offWebSocket, ctxDone, wsHandler>>

\* The select of Ping takes case <-ctx.Done(): Ping returns ctx.Err().
PingCtxDoneKeepsWaiting(c) ==
    /\ wsCall[c].pc = "wait"
    /\ ctxDone
    /\ wsCall' = [wsCall EXCEPT ![c].pc = "wait"]
    /\ UNCHANGED <<offWebSocket, ctxDone, pongC, wsHandler>>
PingCtxDone(c) ==
    /\ wsCall[c].pc = "wait"
    /\ ctxDone
    /\ wsCall' = [wsCall EXCEPT ![c].pc = "canceled"]
    /\ UNCHANGED <<offWebSocket, ctxDone, pongC, wsHandler>>

\* A pong can carry payload p: the peer echoes the payload of a ping frame that
\* was written, and may send a pong of its own with any other payload.
PongPossible(p) ==
    \/ p = "stray"
    \/ \E c \in Callers : wsCall[c].payload = p /\ wsCall[c].pc # "errWrite"

\* The WebSocket receives a pong with payload p and calls the installed handler:
\* a send to pongC that does not block, then the handler that was there before,
\* if any, which returns res.
PongHandlerChainsIfAccepted(p, res) ==
    /\ wsHandler.handled < MaxPongs
    /\ PongPossible(p)
    /\ pongC' = IF Len(pongC) < PongCap THEN Append(pongC, p) ELSE pongC
    /\ wsHandler' = [wsHandler EXCEPT
                       !.handled = @ + 1,
                       !.last = p,
                       !.seen = @ \cup {p},
                       !.chained = IF wsHandler.prev = "nil" THEN "none"
                                   ELSE IF Len(pongC) < PongCap THEN p ELSE @,
                       !.prevRet = IF wsHandler.prev = "nil" THEN "none"
                                   ELSE IF Len(pongC) < PongCap THEN res ELSE @,
                       !.ret = IF wsHandler.prev = "nil" THEN "ok"
                               ELSE IF Len(pongC) < PongCap THEN res ELSE "ok"]
    /\ UNCHANGED <<offWebSocket, ctxDone, wsCall>>
PongHandlerBlockingSend(p, res) ==
    /\ wsHandler.handled < MaxPongs
    /\ PongPossible(p)
    /\ Len(pongC) < PongCap
    /\ pongC' = Append(pongC, p)
    /\ wsHandler' = [wsHandler EXCEPT
                       !.handled = @ + 1,
                       !.last = p,
                       !.seen = @ \cup {p},
                       !.chained = IF wsHandler.prev = "nil" THEN "none" ELSE p,
                       !.prevRet = IF wsHandler.prev = "nil" THEN "none" ELSE res,
                       !.ret = IF wsHandler.prev = "nil" THEN "ok" ELSE res]
    /\ UNCHANGED <<offWebSocket, ctxDone, wsCall>>
PongHandler(p, res) ==
    /\ wsHandler.handled < MaxPongs
    /\ PongPossible(p)
    /\ pongC' = IF Len(pongC) < PongCap THEN Append(pongC, p) ELSE pongC
    /\ wsHandler' = [wsHandler EXCEPT
                       !.handled = @ + 1,
                       !.last = p,
                       !.seen = @ \cup {p},
                       !.chained = IF wsHandler.prev = "nil" THEN "none" ELSE p,
                       !.prevRet = IF wsHandler.prev = "nil" THEN "none" ELSE res,
                       !.ret = IF wsHandler.prev = "nil" THEN "ok" ELSE res]
    /\ UNCHANGED <<offWebSocket, ctxDone, wsCall>>

\* ------------------------------------------------------------------ Monitor

\* The state after NewMonitor: the zero values of the fields it does not set.
InitUnmeasuredSentinel ==
    /\ ctxDone = FALSE
    /\ now = 0
    /\ tickerC = NoTick
    /\ tickerStopped = FALSE
    /\ fired = 0
    /\ runPc = "created"
    /\ tick = NoTick
    /\ pingC = [l \in Legs |-> <<>>]
    /\ loopPc = [l \in Legs |-> "notStarted"]
    /\ then = [l \in Legs |-> 0]
    /\ latency = [l \in Legs |-> -1]
    /\ inflight = [l \in Legs |-> 0]
    /\ lastPing = NoPing
    /\ lastLog = "none"
    /\ reportInFlight = 0
    /\ reportArg = NoStats
    /\ lastReport = "none"
    /\ ctor = Constructed
    /\ WebSocketIdle
    /\ sshCall = NoSSHCall
    /\ NoColorsCall
    /\ multi = MultiConstructed
Init ==
    /\ ctxDone = FALSE
    /\ now = 0
    /\ tickerC = NoTick
    /\ tickerStopped = FALSE
    /\ fired = 0
    /\ runPc = "created"
    /\ tick = NoTick
    /\ pingC = [l \in Legs |-> <<>>]
    /\ loopPc = [l \in Legs |-> "notStarted"]
    /\ then = [l \in Legs |-> 0]
    /\ latency = [l \in Legs |-> 0]
    /\ inflight = [l \in Legs |-> 0]
    /\ lastPing = NoPing
    /\ lastLog = "none"
    /\ reportInFlight = 0
    /\ reportArg = NoStats
    /\ lastReport = "none"
    /\ ctor = Constructed
    /\ WebSocketIdle
    /\ sshCall = NoSSHCall
    /\ NoColorsCall
    /\ multi = MultiConstructed

\* ------------------------------------------------------------ environment

\* The owner of the context cancels it.
Cancel ==
    /\ ~ctxDone
    /\ ctxDone' = TRUE
    /\ UNCHANGED <<offMonitor, now, tickerVars, runVars, loopVars, chanVars, reportVars>>

\* Time passes on the Monitor's Clock.
ClockAdvance ==
    /\ now < MaxTime
    /\ now' = now + 1
    /\ UNCHANGED <<offMonitor, ctxDone, tickerVars, runVars, loopVars, chanVars, reportVars>>

\* The interval source fires sub-interval k: it offers Tick{Key: k, Time: now} on Next().
TickerFire(k) ==
    /\ ~tickerStopped
    /\ tickerC = NoTick
    /\ fired < MaxTicks
    /\ tickerC' = [Key |-> k, Time |-> now]
    /\ fired' = fired + 1
    /\ UNCHANGED <<offMonitor, envVars, tickerStopped, runVars, loopVars, chanVars, reportVars>>

\* ------------------------------------------------------------ Monitor.Run

\* Run is called: the two channels are made and the two pingLoop goroutines started.
RunStart ==
    /\ runPc = "created"
    /\ runPc' = "select"
    /\ pingC' = [l \in Legs |-> <<>>]
    /\ loopPc' = [l \in Legs |-> "select"]
    /\ UNCHANGED <<offMonitor, envVars, tickerVars, tick, then, latency, inflight, lastPing, lastLog,
                   reportVars>>

\* A return of Run that leaves the ticker running.
RunReturnKeepsTicker ==
    /\ runPc' = "returned"
    /\ tick' = NoTick
    /\ UNCHANGED <<tickerC, tickerStopped, fired>>

\* A return of Run; the deferred m.ticker.Stop() runs.
RunReturn ==
    /\ runPc' = "returned"
    /\ tick' = NoTick
    /\ tickerStopped' = TRUE
    /\ UNCHANGED <<tickerC, fired>>

\* The outer select takes case tick := <-m.ticker.Next() and switches on tick.Key.
RunRecvTick ==
    /\ runPc = "select"
    /\ tickerC # NoTick
    /\ tick' = tickerC
    /\ tickerC' = NoTick
    /\ runPc' = IF tickerC.Key = pingKey THEN "pingClient" ELSE "report"
    /\ UNCHANGED <<offMonitor, envVars, tickerStopped, fired, loopVars, chanVars, reportVars>>

\* The outer select takes case <-ctx.Done().
RunCtxDone ==
    /\ runPc = "select"
    /\ ctxDone
    /\ RunReturn
    /\ UNCHANGED <<offMonitor, envVars, loopVars, chanVars, reportVars>>

\* select { case c <- tick.Time: ; case <-ctx.Done(): return ; default: } for leg l.
\* A ready case is chosen at random; default runs only when no case is ready.
SelectSendBlocking(l, nextPc) ==
    /\ ChanCanSend(pingC[l])
    /\ pingC' = [pingC EXCEPT ![l] = Append(@, tick.Time)]
    /\ runPc' = nextPc
    /\ tick' = IF nextPc = "select" THEN NoTick ELSE tick
    /\ UNCHANGED tickerVars
SelectSend(l, nextPc) ==
    \/ /\ ChanCanSend(pingC[l])
       /\ pingC' = [pingC EXCEPT ![l] = Append(@, tick.Time)]
       /\ runPc' = nextPc
       /\ tick' = IF nextPc = "select" THEN NoTick ELSE tick
       /\ UNCHANGED tickerVars
    \/ /\ ctxDone
       /\ RunReturn
       /\ UNCHANGED chanVars
    \/ /\ ~ChanCanSend(pingC[l])
       /\ ~ctxDone
       /\ runPc' = nextPc
       /\ tick' = IF nextPc = "select" THEN NoTick ELSE tick
       /\ UNCHANGED <<tickerVars, chanVars>>

\* case pingKey, first select: ping the client.
RunPingClient ==
    /\ runPc = "pingClient"
    /\ SelectSend("client", "pingServer")
    /\ UNCHANGED <<offMonitor, envVars, loopVars, reportVars>>

\* case pingKey, second select: ping the server.
RunPingServerSkipped ==
    /\ runPc = "pingServer"
    /\ runPc' = "select"
    /\ tick' = NoTick
    /\ UNCHANGED <<offMonitor, envVars, tickerVars, chanVars, loopVars, reportVars>>
RunPingServer ==
    /\ runPc = "pingServer"
    /\ SelectSend("server", "select")
    /\ UNCHANGED <<offMonitor, envVars, loopVars, reportVars>>

\* case reportingKey: m.GetStats() loads m.clientLatency, its first field.
RunGetStatsClientZero ==
    /\ runPc = "report"
    /\ reportArg' = NoStats
    /\ runPc' = "reportServer"
    /\ UNCHANGED <<offMonitor, envVars, tickerVars, tick, loopVars, chanVars,
                   reportInFlight, lastReport>>
RunGetStatsClient ==
    /\ runPc = "report"
    /\ reportArg' = [Client |-> Load("client"), Server |-> 0]
    /\ runPc' = "reportServer"
    /\ UNCHANGED <<offMonitor, envVars, tickerVars, tick, loopVars, chanVars,
                   reportInFlight, lastReport>>

\* m.GetStats() loads m.serverLatency and m.reporter.Report(ctx, stats) is called.
RunReportCallAsync ==
    /\ runPc = "reportServer"
    /\ reportArg' = [reportArg EXCEPT !.Server = Load("server")]
    /\ reportInFlight' = reportInFlight + 1
    /\ runPc' = "select"
    /\ tick' = NoTick
    /\ UNCHANGED <<offMonitor, envVars, tickerVars, loopVars, chanVars, lastReport>>
RunReportCall ==
    /\ runPc = "reportServer"
    /\ reportArg' = [reportArg EXCEPT !.Server = Load("server")]
    /\ reportInFlight' = reportInFlight + 1
    /\ runPc' = "reporting"
    /\ UNCHANGED <<offMonitor, envVars, tickerVars, tick, loopVars, chanVars, lastReport>>

\* Where Run continues after Report returned res: an error is logged, nothing else.
AfterReportFatal(res) == IF res = "err" THEN "returned" ELSE "select"
AfterReport(res) == "select"

\* Reporter.Report returns res to Run.
ReportReturn(res) ==
    /\ runPc = "reporting"
    /\ reportInFlight' = reportInFlight - 1
    /\ lastReport' = res
    /\ runPc' = AfterReport(res)
    /\ tick' = NoTick
    /\ tickerStopped' = (tickerStopped \/ runPc' = "returned")
    /\ reportArg' = NoStats
    /\ UNCHANGED <<offMonitor, envVars, tickerC, fired, loopVars, chanVars>>

\* -------------------------------------------------------- Monitor.pingLoop

\* The select of pingLoop takes case <-ctx.Done(), whose body is empty.
LoopCtxDone(l) ==
    /\ loopPc[l] = "select"
    /\ ctxDone
    /\ loopPc' = [loopPc EXCEPT ![l] = "ctxDone"]
    /\ UNCHANGED <<offMonitor, envVars, tickerVars, runVars, then, latency, inflight, lastPing, lastLog,
                   chanVars, reportVars>>

\* Where pingLoop continues after the ctx.Done() case: the next iteration of the for.
AfterCtxDone == "select"

LoopAgain(l) ==
    /\ loopPc[l] = "ctxDone"
    /\ loopPc' = [loopPc EXCEPT ![l] = AfterCtxDone]
    /\ UNCHANGED <<offMonitor, envVars, tickerVars, runVars, then, latency, inflight, lastPing, lastLog,
                   chanVars, reportVars>>

\* The select of pingLoop takes case then := <-pingC and calls pinger.Ping(ctx).
LoopRecvAsync(l) ==
    /\ loopPc[l] = "select"
    /\ pingC[l] # <<>>
    /\ then' = [then EXCEPT ![l] = Head(pingC[l])]
    /\ pingC' = [pingC EXCEPT ![l] = Tail(@)]
    /\ inflight' = [inflight EXCEPT ![l] = @ + 1]
    /\ UNCHANGED <<offMonitor, envVars, tickerVars, runVars, loopPc, latency, lastPing, lastLog, reportVars>>
LoopRecv(l) ==
    /\ loopPc[l] = "select"
    /\ pingC[l] # <<>>
    /\ then' = [then EXCEPT ![l] = Head(pingC[l])]
    /\ pingC' = [pingC EXCEPT ![l] = Tail(@)]
    /\ inflight' = [inflight EXCEPT ![l] = @ + 1]
    /\ loopPc' = [loopPc EXCEPT ![l] = "pinging"]
    /\ UNCHANGED <<offMonitor, envVars, tickerVars, runVars, latency, lastPing, lastLog, reportVars>>

\* The stored latency of leg l after Ping returned res: stored on success only.
LatencyAfterPingReversed(l, res) ==
    IF res = "ok" THEN Milliseconds(then[l] - now) ELSE latency[l]
LatencyAfterPingReset(l, res) ==
    IF res = "ok" THEN Milliseconds(now - then[l]) ELSE 0
LatencyAfterPing(l, res) ==
    IF res = "ok" THEN Milliseconds(now - then[l]) ELSE latency[l]

\* Where pingLoop continues after Ping returned res: the next iteration of the for.
LoopAfterPingFatal(res) == IF res = "err" THEN "exited" ELSE "select"
LoopAfterPing(res) == "select"

\* What pingLoop logs after Ping returned res: a warning for every non-nil error.
LogAfterPing(res) == IF res # "ok" THEN "warn" ELSE "none"

\* pinger.Ping(ctx) returns res on leg l.
PingReturnStoresBothLegs(l, res) ==
    /\ loopPc[l] = "pinging"
    /\ res = "canceled" => ctxDone
    /\ lastLog' = LogAfterPing(res)
    /\ inflight' = [inflight EXCEPT ![l] = @ - 1]
    /\ latency' = [k \in Legs |-> IF res = "ok" THEN LatencyAfterPing(l, res) ELSE latency[k]]
    /\ lastPing' = [leg |-> l, res |-> res]
    /\ then' = [then EXCEPT ![l] = 0]
    /\ loopPc' = [loopPc EXCEPT ![l] = LoopAfterPing(res)]
    /\ UNCHANGED <<offMonitor, envVars, tickerVars, runVars, chanVars, reportVars>>
PingReturn(l, res) ==
    /\ loopPc[l] = "pinging"
    /\ res = "canceled" => ctxDone
    /\ lastLog' = LogAfterPing(res)
    /\ inflight' = [inflight EXCEPT ![l] = @ - 1]
    /\ latency' = [latency EXCEPT ![l] = LatencyAfterPing(l, res)]
    /\ lastPing' = [leg |-> l, res |-> res]
    /\ then' = [then EXCEPT ![l] = 0]
    /\ loopPc' = [loopPc EXCEPT ![l] = LoopAfterPing(res)]
    /\ UNCHANGED <<offMonitor, envVars, tickerVars, runVars, chanVars, reportVars>>

\* ------------------------------------------------------------ specification

Next ==
    \/ Cancel
    \/ ClockAdvance
    \/ \E k \in Keys : TickerFire(k)
    \/ RunStart
    \/ RunRecvTick
    \/ RunCtxDone
    \/ RunPingClient
    \/ RunPingServer
    \/ RunGetStatsClient
    \/ RunReportCall
    \/ \E res \in Results : ReportReturn(res)
    \/ \E l \in Legs : LoopCtxDone(l)
    \/ \E l \in Legs : LoopAgain(l)
    \/ \E l \in Legs : LoopRecv(l)
    \/ \E l \in Legs, res \in PingResults : PingReturn(l, res)

Spec == Init /\ [][Next]_vars

TypeOK ==
    /\ ctxDone \in BOOLEAN
    /\ now \in Time
    /\ runPc \in {"created", "select", "pingClient", "pingServer", "report",
                  "reportServer", "reporting", "returned"}
    /\ \A l \in Legs :
        /\ loopPc[l] \in {"notStarted", "select", "ctxDone", "pinging"}
        /\ Len(pingC[l]) <= ChanCap
        /\ latency[l] \in 0..MaxTime
        /\ inflight[l] \in 0..1

\* NewMonitor on every configuration of Configs; no Monitor runs.
InitConfig ==
    /\ ctxDone = FALSE
    /\ now = 0
    /\ tickerC = NoTick
    /\ tickerStopped = FALSE
    /\ fired = 0
    /\ runPc = "created"
    /\ tick = NoTick
    /\ pingC = [l \in Legs |-> <<>>]
    /\ loopPc = [l \in Legs |-> "notStarted"]
    /\ then = [l \in Legs |-> 0]
    /\ latency = [l \in Legs |-> 0]
    /\ inflight = [l \in Legs |-> 0]
    /\ lastPing = NoPing
    /\ lastLog = "none"
    /\ reportInFlight = 0
    /\ reportArg = NoStats
    /\ lastReport = "none"
    /\ \E c \in Configs : ctor = CtorEntered(c)
    /\ WebSocketIdle
    /\ sshCall = NoSSHCall
    /\ NoColorsCall
    /\ multi = MultiConstructed

NextConfig ==
    \/ NewMonitorCheck
    \/ NewMonitorReturn

SpecConfig == InitConfig /\ [][NextConfig]_vars

\* Ping calls on one WebSocketPinger, with the pongs its WebSocket receives and the
\* cancellation of the callers' context; no Monitor runs.
InitWS ==
    /\ ctxDone = FALSE
    /\ now = 0
    /\ tickerC = NoTick
    /\ tickerStopped = FALSE
    /\ fired = 0
    /\ runPc = "created"
    /\ tick = NoTick
    /\ pingC = [l \in Legs |-> <<>>]
    /\ loopPc = [l \in Legs |-> "notStarted"]
    /\ then = [l \in Legs |-> 0]
    /\ latency = [l \in Legs |-> 0]
    /\ inflight = [l \in Legs |-> 0]
    /\ lastPing = NoPing
    /\ lastLog = "none"
    /\ reportInFlight = 0
    /\ reportArg = NoStats
    /\ lastReport = "none"
    /\ ctor = Constructed
    /\ wsCall = [c \in Callers |-> NoCall]
    /\ pongC = <<>>
    /\ \E prev \in {"nil", "set"} : wsHandler = NewWebsocketPinger(prev)
    /\ sshCall = NoSSHCall
    /\ NoColorsCall
    /\ multi = MultiConstructed

NextWS ==
    \/ Cancel
    \/ \E c \in Callers, res \in Results : PingWrite(c, res)
    \/ \E c \in Callers : PingRecvPong(c)
    \/ \E c \in Callers : PingCtxDone(c)
    \/ \E p \in Payloads, res \in Results : PongHandler(p, res)
    \/ SSHPingSend
    \/ \E res \in Results : SSHPingReturn(res)

SpecWS == InitWS /\ [][NextWS]_vars

\* latencyColors on every pair of latencies; nothing else runs.
InitColors ==
    /\ ctxDone = FALSE
    /\ now = 0
    /\ tickerC = NoTick
    /\ tickerStopped = FALSE
    /\ fired = 0
    /\ runPc = "created"
    /\ tick = NoTick
    /\ pingC = [l \in Legs |-> <<>>]
    /\ loopPc = [l \in Legs |-> "notStarted"]
    /\ then = [l \in Legs |-> 0]
    /\ latency = [l \in Legs |-> 0]
    /\ inflight = [l \in Legs |-> 0]
    /\ lastPing = NoPing
    /\ lastLog = "none"
    /\ reportInFlight = 0
    /\ reportArg = NoStats
    /\ lastReport = "none"
    /\ ctor = Constructed
    /\ WebSocketIdle
    /\ sshCall = NoSSHCall
    /\ colorArgs \in [client : Latencies, server : Latencies]
    /\ colorRet = NoColors
    /\ multi = MultiConstructed

NextColors == LatencyColorsCall

SpecColors == InitColors /\ [][NextColors]_vars

\* interval.NewMulti on every key list of KeyLists; nothing else runs.
InitMulti ==
    /\ ctxDone = FALSE
    /\ now = 0
    /\ tickerC = NoTick
    /\ tickerStopped = FALSE
    /\ fired = 0
    /\ runPc = "created"
    /\ tick = NoTick
    /\ pingC = [l \in Legs |-> <<>>]
    /\ loopPc = [l \in Legs |-> "notStarted"]
    /\ then = [l \in Legs |-> 0]
    /\ latency = [l \in Legs |-> 0]
    /\ inflight = [l \in Legs |-> 0]
    /\ lastPing = NoPing
    /\ lastLog = "none"
    /\ reportInFlight = 0
    /\ reportArg = NoStats
    /\ lastReport = "none"
    /\ ctor = Constructed
    /\ WebSocketIdle
    /\ sshCall = NoSSHCall
    /\ NoColorsCall
    /\ \E ks \in KeyLists : multi = NewMultiEntered(ks)

NextMulti == NewMulti

SpecMulti == InitMulti /\ [][NextMulti]_vars

\* A Ping call that can take a case of its select takes one: a pong that stays in
\* pongC is read, and a call that waits under a canceled context returns.
FairWS ==
    /\ SpecWS
    /\ \A c \in Callers : WF_vars(PingRecvPong(c)) /\ WF_vars(PingCtxDone(c))

\* Scheduling the code guarantees.  A goroutine that can take a step takes it; a
\* select whose ctx.Done() case stays ready chooses at random among its ready cases,
\* so it does not avoid that case forever; a Report call in progress returns.
FairRun ==
    /\ Init /\ [][Next]_vars
    /\ WF_vars(RunCtxDone)
    /\ WF_vars(RunPingClient)
    /\ WF_vars(RunPingServer)
    /\ WF_vars(RunGetStatsClient)
    /\ WF_vars(RunReportCall)
    /\ WF_vars(\E res \in Results : ReportReturn(res))

\* FairRun, and the measurement tasks run and every Ping call in progress returns.
FairAll ==
    /\ FairRun
    /\ \A l \in Legs :
        /\ WF_vars(LoopCtxDone(l))
        /\ WF_vars(LoopAgain(l))
        /\ WF_vars(LoopRecv(l))
        /\ WF_vars(\E res \in PingResults : PingReturn(l, res))

\* Only this: a measurement task that can take a tick from its channel takes it.
FairRecv ==
    /\ Init /\ [][Next]_vars
    /\ \A l \in Legs : WF_vars(LoopRecv(l))

\* ------------------------------------------------------------------ claims

\* A Ping call on leg l returns in this step.
PingReturns(l) == loopPc[l] = "pinging" /\ loopPc'[l] # "pinging"

\* A Ping call on leg l returns an error in this step.
PingFails(l) == PingReturns(l) /\ lastPing'.leg = l /\ lastPing'.res # "ok"

C2_OnePingPerLeg == \A l \in Legs : inflight[l] <= 1

\* C2 witness: a Ping is in flight on both legs while a further tick is pending on both.
C2_Witness == \A l \in Legs : inflight[l] = 1 /\ pingC[l] # <<>>

\* C3: after the context is canceled both measurement tasks eventually exit,
\* provided every Ping call in flight returns.
C3_TasksExit ==
    (ctxDone /\ runPc # "created") ~> (\A l \in Legs : loopPc[l] = "exited")

\* C4: after the context is canceled Run eventually returns, whatever the
\* measurement tasks do (Ping calls need not return).
C4_RunReturns == (ctxDone /\ runPc # "created") ~> (runPc = "returned")

\* C4 witness: Run has returned while both measurement tasks are inside Ping.
C4_Witness == runPc = "returned" /\ \A l \in Legs : loopPc[l] = "pinging"

\* C5: once Run has returned, no Ping call is started on either leg.
C5_NoPingAfterReturn ==
    [][runPc = "returned" => \A l \in Legs : inflight'[l] <= inflight[l]]_vars

\* C6: once Run has returned, no Report call is in progress and none is made.
C6_NoReportAfterReturn ==
    /\ [](runPc = "returned" => reportInFlight = 0)
    /\ [][runPc = "returned" => reportInFlight' <= reportInFlight]_vars

\* C6 witness: Run has returned after the Reporter was invoked (and failed).
C6_Witness == runPc = "returned" /\ lastReport = "err" /\ tickerStopped

\* C7: a Ping that returns an error leaves the leg's stored latency as it was; a
\* Ping that succeeds stores the new measurement.
C7_ErrorKeepsLatency ==
    [][\A l \in Legs : PingReturns(l) =>
        IF PingFails(l)
        THEN latency'[l] = latency[l]
        ELSE latency'[l] = Milliseconds(now - then[l])]_vars

\* C7 witness: the last Ping of a leg failed and the leg still shows the non-zero
\* measurement of an earlier Ping.
C7_Witness == \E l \in Legs : lastPing = [leg |-> l, res |-> "err"] /\ latency[l] > 0

\* C8: a Ping failure on a leg leaves that leg's task waiting for the next signal
\* with its pending signal kept, and changes nothing of the other leg or of Run.
C8_FailureIsLocal ==
    [][\A l \in Legs : PingFails(l) =>
        /\ loopPc'[l] = "select"
        /\ pingC' = pingC
        /\ runPc' = runPc
        /\ \A k \in Legs \ {l} :
            /\ latency'[k] = latency[k]
            /\ loopPc'[k] = loopPc[k]
            /\ inflight'[k] = inflight[k]
            /\ then'[k] = then[k]]_vars

\* C8 witness: a leg whose last Ping failed is pinging again, and the other leg holds
\* a measurement.
C8_Witness ==
    \E l \in Legs : \E k \in Legs \ {l} :
        /\ lastPing = [leg |-> l, res |-> "err"]
        /\ loopPc[l] = "pinging"
        /\ latency[k] > 0

\* C9: when Report returns an error, Run goes back to its select with the interval
\* source still running.
C9_ReportErrorContinues ==
    [][(runPc = "reporting" /\ runPc' # "reporting" /\ lastReport' = "err") =>
        (runPc' = "select" /\ ~tickerStopped')]_vars

\* C9 witness: after a Report call failed the Reporter is being invoked again, while
\* a measurement task is pinging.
C9_Witness ==
    /\ lastReport = "err"
    /\ runPc = "reporting"
    /\ \E l \in Legs : inflight[l] = 1

\* C10: Run returns only after its context has been canceled.
C10_ReturnsOnlyOnCancel == runPc = "returned" => ctxDone

\* C10 witness: Run has returned after a Ping failure and a Report failure.
C10_Witness ==
    /\ runPc = "returned"
    /\ lastReport = "err"
    /\ lastPing.res = "err"

\* C11: GetStats on a Monitor on which Run has not been called returns {0, 0},
\* whatever time has passed and whether or not the context is canceled.
C11_InitialStatsZero == runPc = "created" => GetStats = NoStats

\* C11 witness: a constructed Monitor, Run not called, no tick fired, time has passed.
C11_Witness == runPc = "created" /\ fired = 0 /\ now > 0 /\ GetStats = NoStats

\* The position of Run at its select for leg l.
SelectPc(l) == IF l = "client" THEN "pingClient" ELSE "pingServer"

\* A Ping call on leg l returns nil in this step.
PingSucceeds(l) == PingReturns(l) /\ lastPing' = [leg |-> l, res |-> "ok"]

C13_ReportsCurrentStats ==
    [][/\ (runPc' = "report" /\ runPc # "report") =>
            (runPc = "select" /\ tickerC.Key = reportingKey /\ reportInFlight = 0)
       /\ (runPc = "report" /\ runPc' # runPc) =>
            (runPc' = "reportServer" /\ reportArg'.Client = latency["client"]
                /\ reportInFlight' = 0)
       /\ (runPc = "reportServer" /\ runPc' # runPc) =>
            (runPc' = "reporting" /\ reportInFlight' = 1
                /\ reportArg' = [Client |-> reportArg.Client,
                                 Server |-> latency["server"]])
       /\ (reportInFlight' > reportInFlight) => runPc = "reportServer"
       /\ (runPc = "reporting" /\ runPc' = runPc) => reportArg' = reportArg]_vars

C13_Witness ==
    /\ runPc = "reporting" /\ reportInFlight = 1
    /\ reportArg.Client > 0 /\ reportArg.Server = 0 /\ reportArg = GetStats

C15_NonNegative ==
    /\ \A l \in Legs : latency[l] >= 0 /\ (loopPc[l] = "pinging" => then[l] <= now)
    /\ GetStats.Client >= 0 /\ GetStats.Server >= 0
    /\ reportArg.Client >= 0 /\ reportArg.Server >= 0

C15_Witness ==
    /\ lastPing.res = "ok" /\ now = MaxTime
    /\ \A l \in Legs : latency[l] > 0

\* C16: the timestamp of the tick Run took is what Run sends to a leg and what
\* the measurement task subtracts; on a successful Ping the value stored for the
\* leg is the number of whole milliseconds in (clock reading at Ping's return
\* minus that timestamp), the remainder dropped.
C16_StoresWholeMilliseconds ==
    [][\A l \in Legs :
        /\ (runPc = "select" /\ runPc' \in {"pingClient", "report"}) => tick' = tickerC
        /\ (Len(pingC'[l]) > Len(pingC[l])) => pingC'[l] = <<tick.Time>>
        /\ (loopPc[l] = "select" /\ loopPc'[l] = "pinging") => then'[l] = Head(pingC[l])
        /\ (loopPc[l] = "pinging" /\ loopPc'[l] = "pinging") => then'[l] = then[l]
        /\ PingSucceeds(l) =>
            /\ latency'[l] * UnitsPerMs <= now - then[l]
            /\ now - then[l] < (latency'[l] + 1) * UnitsPerMs]_vars

C16_Witness ==
    \E l \in Legs :
        /\ fired = 1 /\ now = MaxTime
        /\ lastPing = [leg |-> l, res |-> "ok"] /\ latency[l] = MaxTime \div UnitsPerMs

\* C17: under every interleaving of a GetStats call with the two measurement
\* tasks, each field GetStats returns is the whole content of its own leg's cell
\* at the instant of the load, and a cell holds 0 until a successful Ping of that
\* same leg replaces it, in one step, by the measurement of that Ping.
C17_NoTornRead ==
    /\ \A l \in Legs : latency[l] = 0
    /\ [][/\ \A l \in Legs :
               latency'[l] # latency[l] =>
                   (PingSucceeds(l) /\ latency'[l] = Milliseconds(now - then[l]))
          /\ (runPc = "report" /\ runPc' = "reportServer") =>
               (reportArg'.Client = latency["client"] /\ latency' = latency)
          /\ (runPc = "reportServer" /\ runPc' = "reporting") =>
               (reportArg'.Server = latency["server"] /\ latency' = latency
                   /\ reportArg'.Client = reportArg.Client)
          /\ (runPc = "reportServer" /\ runPc' = runPc) => reportArg' = reportArg]_vars

\* A store on the client leg falls between the two loads of one GetStats call.
C17_Witness ==
    /\ runPc = "reportServer"
    /\ reportArg.Client # latency["client"]
    /\ inflight["server"] = 1

\* C18: when NewMonitor has returned, it returned an error and no Monitor if the
\* configuration lacked the ClientPinger, the ServerPinger or the Reporter, and a
\* Monitor and no error if all three were present.
C18_ErrorIffDependencyMissing ==
    ctor.pc = "done" =>
        IF ~ctor.in.ClientPinger \/ ~ctor.in.ServerPinger \/ ~ctor.in.Reporter
        THEN ctor.err # "nil" /\ ctor.monitor = NoMonitor
        ELSE ctor.err = "nil" /\ ctor.monitor # NoMonitor

C18_Witness ==
    /\ ctor.pc = "done"
    /\ ctor.in.ClientPinger /\ ctor.in.ServerPinger /\ ~ctor.in.Reporter
    /\ ctor.err # "nil" /\ ctor.monitor = NoMonitor

\* The interval field v after defaulting to d.
Defaulted(v, d) == IF v <= 0 THEN d ELSE v

C20_ReturnsOnlyOnMatchingPong ==
    [][\A c \in Callers :
        /\ (wsCall'[c].pc = "ok" /\ wsCall[c].pc # "ok") =>
            /\ wsCall[c].pc = "wait" /\ pongC # <<>>
            /\ Head(pongC) = wsCall[c].payload
            /\ wsCall[c].payload = NewString(c)
        /\ (wsCall[c].pc = "wait" /\ wsCall'[c].got # wsCall[c].got
                /\ Head(pongC) # wsCall[c].payload) =>
            /\ wsCall'[c].pc = "wait"
            /\ pongC' = Tail(pongC)
        /\ (wsCall[c].pc = "wait" /\ pongC # <<>> /\ pongC' = Tail(pongC)
                /\ Head(pongC) # wsCall[c].payload) =>
            wsCall'[c].pc = "wait"]_vars

C20_Witness ==
    \E c \in Callers :
        /\ wsCall[c].pc = "wait" /\ pongC = <<>>
        /\ wsCall[c].got \notin {"none", wsCall[c].payload}

\* C21: once the pong handler has been called with the payload of a Ping that is
\* waiting, that Ping returns nil, whatever pongs with other payloads arrived
\* before.  Cancellation of the context and a second caller on the same pinger
\* are left out of the case.
C21_MatchingPongCompletes ==
    \A c \in Callers :
        (/\ wsCall[c].pc = "wait" /\ wsHandler.last = wsCall[c].payload
         /\ \A d \in Callers \ {c} : wsCall[d].pc = "idle")
            ~> (\/ wsCall[c].pc = "ok"
                \/ ctxDone
                \/ \E d \in Callers \ {c} : wsCall[d].pc # "idle")

\* C22: every call of the installed pong handler, whether its payload went into
\* pongC or was dropped, calls the handler that was installed before with the
\* same payload and returns what that handler returned; with no handler before,
\* it returns nil.
C22_ChainsToPreviousHandler ==
    [][wsHandler'.handled # wsHandler.handled =>
        /\ wsHandler'.handled = wsHandler.handled + 1
        /\ wsHandler'.prev = wsHandler.prev
        /\ wsHandler.prev = "set" =>
            /\ wsHandler'.chained = wsHandler'.last
            /\ wsHandler'.prevRet \in Results
            /\ wsHandler'.ret = wsHandler'.prevRet
        /\ wsHandler.prev = "nil" =>
            (wsHandler'.chained = "none" /\ wsHandler'.ret = "ok")]_vars

\* The last pong was dropped (pongC still holds an earlier one), and the handler
\* before was called with it and its error returned.
C22_Witness ==
    /\ wsHandler.prev = "set" /\ pongC # <<>> /\ Head(pongC) # wsHandler.last
    /\ wsHandler.chained = wsHandler.last /\ wsHandler.ret = "err"

\* The pong that pongC offers, if any, carries the payload of caller c.
MatchingPongReady(c) == pongC # <<>> /\ Head(pongC) = wsCall[c].payload

\* C23 (as stated): a Ping that waits under a canceled context, its matching pong
\* not received, returns the cancellation error.
C23_ReturnsCancellationError ==
    \A c \in Callers :
        (wsCall[c].pc = "wait" /\ ctxDone /\ ~MatchingPongReady(c))
            ~> (wsCall[c].pc = "canceled")

\* C23 (amended): a Ping that waits under a canceled context returns; it returns
\* the cancellation error, unless its matching pong reaches it first, in which
\* case it may return nil.  It never returns the cancellation error while the
\* context is not canceled.
C23_ReturnsAfterCancel ==
    /\ \A c \in Callers :
        (wsCall[c].pc = "wait" /\ ctxDone) ~> (wsCall[c].pc \in {"canceled", "ok"})
    /\ [][\A c \in Callers :
            /\ (wsCall[c].pc = "wait" /\ wsCall'[c].pc = "canceled") => ctxDone
            /\ (wsCall[c].pc = "wait" /\ wsCall'[c].pc = "ok") => MatchingPongReady(c)
            /\ (wsCall[c].pc = "wait" /\ wsCall'[c].pc # "wait") =>
                    wsCall'[c].pc \in {"canceled", "ok"}]_vars

C23_Witness ==
    \E c \in Callers : wsCall[c].pc = "canceled" /\ wsCall[c].got = "stray"

\* C24: when a Ping that was in flight returns the error of the canceled context,
\* pingLoop logs no warning for it.
C24_CancellationNotLogged ==
    [][\A l \in Legs :
        (PingReturns(l) /\ ctxDone /\ lastPing' = [leg |-> l, res |-> "canceled"]) =>
            lastLog' # "warn"]_vars

\* C25: a Ping call makes one probe and no more.  A WebSocketPinger.Ping call has
\* written one ping control frame from its first step to its return, whatever
\* pongs it reads; an SSHPinger.Ping call has sent one keepalive request with
\* want-reply set, and it returns an error exactly when that request's send
\* returned one.
C25_OneProbePerCall ==
    /\ \A c \in Callers : wsCall[c].writes = IF wsCall[c].pc = "idle" THEN 0 ELSE 1
    /\ sshCall.requests = IF sshCall.pc = "idle" THEN 0 ELSE 1
    /\ sshCall.pc # "idle" => (sshCall.wantReply /\ sshCall.name = KeepAliveReqType)
    /\ sshCall.pc = "done" =>
        /\ sshCall.sendErr \in Results
        /\ sshCall.ret = "err" <=> sshCall.sendErr = "err"

C25_Witness ==
    /\ sshCall.pc = "done" /\ sshCall.ret = "err" /\ sshCall.requests = 1
    /\ \E c \in Callers :
        wsCall[c].pc = "wait" /\ wsCall[c].got = "stray" /\ wsCall[c].writes = 1

\* latencyColors has returned for the arguments client and server.
Classified == colorRet # NoColors

\* C26: for non-negative client and server both below 150, latencyColors returns
\* ok for the client, ok for the server and ok for the total.
C26_BothBelowWarnAllOk ==
    (/\ Classified
     /\ colorArgs.client >= 0 /\ colorArgs.client < 150
     /\ colorArgs.server >= 0 /\ colorArgs.server < 150)
        => colorRet = [client |-> "ok", server |-> "ok", total |-> "ok"]

\* Both legs ok although their sum is past the warn threshold.
C26_Witness ==
    /\ Classified /\ colorRet.total = "ok"
    /\ colorArgs.client = 149 /\ colorArgs.server = 149

\* C27: when client or server is 400 or more, the total is error, whatever the
\* other value is.
C27_ErrorDominates ==
    (Classified /\ (colorArgs.client >= 400 \/ colorArgs.server >= 400))
        => colorRet.total = "error"

C27_Witness ==
    /\ Classified /\ colorRet.total = "error"
    /\ colorArgs.client < 0 /\ colorRet.client = "ok" /\ colorArgs.server = 400

\* C28: when one of client and server is in [150, 400) and the other is below
\* 150, the total is warn.
C28_OneWarnOneOkIsWarn ==
    (/\ Classified
     /\ \/ (/\ colorArgs.client >= 150 /\ colorArgs.client < 400
             /\ colorArgs.server < 150)
        \/ (/\ colorArgs.server >= 150 /\ colorArgs.server < 400
             /\ colorArgs.client < 150))
        => colorRet.total = "warn"

C28_Witness ==
    /\ Classified /\ colorRet.total = "warn"
    /\ colorArgs.client = 0 /\ colorArgs.server = 150

\* C29: when client and server are both in [150, 400), the total is warn and
\* not error.
C29_BothWarnIsWarn ==
    (/\ Classified
     /\ colorArgs.client >= 150 /\ colorArgs.client < 400
     /\ colorArgs.server >= 150 /\ colorArgs.server < 400)
        => (colorRet.total = "warn" /\ colorRet.total # "error")

C29_Witness ==
    /\ Classified /\ colorRet.total = "warn"
    /\ colorArgs.client = 399 /\ colorArgs.server = 399

\* The colour of one leg by the thresholds of the claim: 150 and 400 belong to
\* the higher bucket.
Bucket(v) == IF v >= 400 THEN "error" ELSE IF v >= 150 THEN "warn" ELSE "ok"

\* C30: the colour of a leg is error from 400, warn from 150 to below 400 and ok
\* below 150, whatever the value of the other leg.
C30_LegByOwnValue ==
    Classified =>
        /\ colorRet.client = Bucket(colorArgs.client)
        /\ colorRet.server = Bucket(colorArgs.server)

C30_Witness ==
    /\ Classified
    /\ colorArgs.client = 150 /\ colorRet.client = "warn"
    /\ colorArgs.server = 400 /\ colorRet.server = "error"

\* C31: interval.NewMulti reports an error, at construction, exactly when two of
\* its SubIntervals share a Key; the ping key and the reporting key NewMonitor
\* passes are distinct, so its construction reports none.
C31_DuplicateKeyIsConfigError ==
    /\ multi.pc = "done" =>
        /\ multi.err # "nil" <=> HasDuplicateKey(multi.keys)
        /\ multi.keys = MonitorKeys => multi.err = "nil"
    /\ pingKey # reportingKey
    /\ ~HasDuplicateKey(MonitorKeys)

C31_Witness ==
    /\ multi.pc = "done" /\ multi.err # "nil"
    /\ multi.keys = <<pingKey, reportingKey, pingKey>>

\* C32: Run stops the interval source exactly in the step in which it returns, on
\* every return path and only once, and after Run has returned the Monitor takes
\* no tick from the source.
C32_RunReturnStopsTicker ==
    /\ [](tickerStopped <=> runPc = "returned")
    /\ [][/\ tickerStopped' # tickerStopped <=> (runPc # "returned" /\ runPc' = "returned")
          /\ tickerStopped => tickerStopped'
          /\ runPc = "returned" =>
               /\ runPc' = "returned"
               /\ tick' = NoTick
               /\ tickerC' = tickerC]_vars

C32_Witness ==
    /\ runPc = "returned"
    /\ tickerStopped
    /\ tickerC # NoTick
    /\ tick = NoTick

\* C33: once Run has returned, no step changes a stored latency, so GetStats keeps
\* returning the same values.
C33_NoStoreAfterReturn ==
    [][runPc = "returned" => GetStats' = GetStats]_vars

\* The other leg.
OtherLeg(l) == IF l = "client" THEN "server" ELSE "client"

\* The measurement task of leg l waits in its select with an empty channel.
LegIdle(l) == loopPc[l] = "select" /\ pingC[l] = <<>>

\* The statement Run is at can be executed.
RunCanStep ==
    ENABLED (RunPingClient \/ RunPingServer \/ RunGetStatsClient \/ RunReportCall)

\* Run leaves the select of leg l in this step.
RunLeavesSelectOf(l) ==
    /\ runPc = (IF l = "client" THEN "pingClient" ELSE "pingServer")
    /\ runPc' # runPc

\* C34: while the Ping of one leg is in progress, however long, Run is never stuck
\* in the handling of a tick: a report tick taken from the source leads to the
\* Reporter being invoked, and a ping tick is handed to the other leg whenever
\* that leg is idle and the context is not canceled, where its task can take it.
C34_RunNeverBlocksOnPing ==
    /\ [](\A l \in Legs : loopPc[l] = "pinging" =>
            /\ runPc \in {"pingClient", "pingServer", "report", "reportServer"} => RunCanStep
            /\ (runPc = "select" /\ tickerC # NoTick) => ENABLED RunRecvTick
            /\ pingC[OtherLeg(l)] # <<>> /\ loopPc[OtherLeg(l)] = "select"
                    => ENABLED LoopRecv(OtherLeg(l)))
    /\ [][\A l \in Legs : loopPc[l] = "pinging" =>
            /\ (runPc = "report" /\ runPc' # runPc) => runPc' = "reportServer"
            /\ (runPc = "reportServer" /\ runPc' # runPc) =>
                    runPc' = "reporting" /\ reportInFlight' = 1
            /\ (RunLeavesSelectOf(OtherLeg(l)) /\ LegIdle(OtherLeg(l)) /\ ~ctxDone) =>
                    pingC'[OtherLeg(l)] = <<tick.Time>>
            /\ RunLeavesSelectOf(l) => pingC'[l] = pingC[l] \/ pingC[l] = <<>>]_vars

C34_Witness ==
    /\ loopPc["client"] = "pinging"
    /\ pingC["client"] # <<>>
    /\ loopPc["server"] = "pinging"
    /\ reportInFlight = 1
    /\ fired = 3

\* Both callers have a Ping call in progress or returned nil, and the handler has
\* been called with the payload of each.
BothPongsDelivered ==
    /\ \A c \in Callers : wsCall[c].pc \in {"wait", "ok"}
    /\ \A c \in Callers : wsCall[c].payload \in wsHandler.seen

\* C35: when two Ping calls are in progress on one WebSocketPinger and the pong
\* handler has been called with the payload of each, both calls return nil (the
\* context not being canceled).
C35_ConcurrentPingsBothReturn ==
    BothPongsDelivered ~> (ctxDone \/ \A c \in Callers : wsCall[c].pc = "ok")

\* C36: the installed pong handler can run to its end in every state, with pongC
\* empty or full and with or without a Ping waiting; it puts the payload in pongC
\* when pongC is empty and drops it when pongC is full, so pongC never holds more
\* than one payload, and in both cases it goes on to the handler installed before.
C36_PongHandlerNeverBlocks ==
    /\ [](Len(pongC) <= 1)
    /\ [](\A p \in Payloads :
            (wsHandler.handled < MaxPongs /\ PongPossible(p)) =>
                ENABLED (\E res \in Results : PongHandler(p, res)))
    /\ [][wsHandler'.handled # wsHandler.handled =>
            /\ pongC' = IF pongC = <<>> THEN <<wsHandler'.last>> ELSE pongC
            /\ wsHandler.prev = "set" => wsHandler'.chained = wsHandler'.last
            /\ wsCall' = wsCall]_vars

C36_Witness ==
    /\ Len(pongC) = 1
    /\ wsHandler.last # Head(pongC)
    /\ wsHandler.prev = "set" /\ wsHandler.chained = wsHandler.last
    /\ \A c \in Callers : wsCall[c].pc # "wait"

\* C37: when ws.WriteControl returns an error, Ping returns it in that step: the
\* call has read nothing from pongC, leaves pongC as it is, and does nothing more.
C37_WriteErrorReturnsAtOnce ==
    /\ [](\A c \in Callers : wsCall[c].pc = "errWrite" =>
            wsCall[c].got = "none" /\ wsCall[c].writes = 1)
    /\ [][\A c \in Callers :
            /\ PingWrite(c, "err") =>
                /\ wsCall'[c].pc = "errWrite"
                /\ pongC' = pongC
            /\ wsCall[c].pc = "errWrite" => wsCall'[c] = wsCall[c]]_vars

C37_Witness ==
    \E c \in Callers :
        /\ wsCall[c].pc = "errWrite"
        /\ pongC = <<"stray">>
        /\ wsHandler.handled = 1

\* C38: at most one Report call is in progress at any time; one is in progress
\* exactly while Run is inside its call of m.reporter.Report, and during that time
\* Run takes no tick from the interval source and hands none to a leg.
C38_ReportNeverConcurrent ==
    /\ [](reportInFlight <= 1)
    /\ [](reportInFlight = 1 <=> runPc = "reporting")
    /\ [][reportInFlight = 1 =>
            /\ reportInFlight' <= 1
            /\ tickerC' = tickerC \/ tickerC = NoTick
            /\ \A l \in Legs : Len(pingC'[l]) <= Len(pingC[l])
            /\ reportInFlight' = 1 => tick' = tick]_vars

C38_Witness ==
    /\ reportInFlight = 1
    /\ tickerC # NoTick
    /\ lastReport # "none"

\* C39: a Ping that succeeds on a leg stores that leg's latency and leaves the
\* other leg's latency as it was; the steps of GetStats and of a Report call
\* change neither; nothing else changes a stored latency at all.
C39_PingStoresOwnLegOnly ==
    [][/\ \A l \in Legs : PingSucceeds(l) =>
            /\ latency'[l] = Milliseconds(now - then[l])
            /\ latency'[OtherLeg(l)] = latency[OtherLeg(l)]
       /\ (runPc \in {"report", "reportServer", "reporting"} /\ runPc' # runPc) =>
            latency' = latency
       /\ latency' # latency => \E l \in Legs : PingSucceeds(l)]_vars

C39_Witness ==
    /\ lastPing = [leg |-> "server", res |-> "ok"]
    /\ latency["server"] = 0
    /\ latency["client"] > 0
    /\ lastReport # "none"

\* The order of the colours: ok < warn < error.
Severity(c) == IF c = "error" THEN 2 ELSE IF c = "warn" THEN 1 ELSE 0

\* The more severe of two colours.
MoreSevere(a, b) == IF Severity(a) >= Severity(b) THEN a ELSE b

\* The least non-negative value with the colour of v.
LeastOfBucket(v) == IF v >= 400 THEN 400 ELSE IF v >= 150 THEN 150 ELSE 0

\* C40: for non-negative client and server the total colour is the more severe
\* of the two per-leg colours returned; it is the same with client and server
\* swapped, and the same for any other pair with the same per-leg colours,
\* whatever the sum of the two values.
C40_TotalIsMoreSevereLeg ==
    (Classified /\ colorArgs.client >= 0 /\ colorArgs.server >= 0) =>
        /\ colorRet.total = MoreSevere(colorRet.client, colorRet.server)
        /\ colorRet.total = latencyColors(colorArgs.server, colorArgs.client).total
        /\ colorRet.total = latencyColors(LeastOfBucket(colorArgs.client),
                                          LeastOfBucket(colorArgs.server)).total

\* One leg warn, one ok, their sum past the error threshold: the total is warn.
C40_Witness ==
    /\ Classified /\ colorRet.total = "warn"
    /\ colorArgs.client = 149 /\ colorArgs.server = 399

====
